---- MODULE Spec2Model ----
(***************************************************************************)
(* Model of the orsa-admin dashboard's two pieces of control-flow logic:   *)
(*                                                                         *)
(*   - the auth context (src/src/contexts/auth-context.tsx): React state   *)
(*     user / isLoading / needsPasswordChange / challengeSession /         *)
(*     sessionTimer and the async operations checkAuthState, login,        *)
(*     logout, completeNewPassword, getAuthToken and the expiry timer;     *)
(*   - the add-product form (src/src/components/site-header.tsx, onSubmit; *)
(*     the same code is repeated as onSubmitAddProduct in the products     *)
(*     page): create product, upload N images, write N image records,      *)
(*     roll back on failure.                                               *)
(*                                                                         *)
(* Every async function is cut at its awaits: one action is "the awaited   *)
(* call resolves (its effect on the collaborator happens) and the code     *)
(* runs up to the next await or to its return".  Actions of different      *)
(* operations interleave, as they do on the browser's event loop.          *)
(*                                                                         *)
(* The identity provider (aws-amplify/auth) and the REST backend are       *)
(* external; they are modelled by the little state the calls observe.      *)
(***************************************************************************)
EXTENDS Integers, Sequences, FiniteSets, TLC

(***************************************************************************)
(* Bounds                                                                  *)
(***************************************************************************)
\* number of distinct browser timer ids the model hands out
MaxTimers == 2
\* longest list of selected images
MaxImages == 2
\* number of products the backend can assign an id to (transactions run)
MaxProducts == 1

NULL == "null"
\* user === null, no current principal, no timer id
NoUser == [username |-> NULL, email |-> NULL, groups |-> {}]
NoPrincipal == [username |-> NULL, loginId |-> NULL]
NoTimer == 0

(***************************************************************************)
(* Identity provider: values                                               *)
(***************************************************************************)
\* the principal getCurrentUser() returns: username and signInDetails.loginId
Principals == { [username |-> "u1", loginId |-> "u1@orsa"] }

\* access tokens (JWT strings) and the cognito:groups claim of their payload
Tokens == {"jwtAdmins", "jwtNoGroups"}

\* values a provider call can throw: Error objects with a message, or a
\* value that is not an Error
Messages == {"NotAuthorized"}
AlreadySignedIn == [isError |-> TRUE, message |-> "AlreadySignedIn"]
NonError == [isError |-> FALSE, message |-> ""]
Thrown == [isError : {TRUE}, message : Messages] \cup {NonError}

Outcome(step, e) == [step |-> step, error |-> e]

\* `error instanceof Error ? error.message : fallback`
ErrorMessage(e, fallback) == IF e.isError THEN e.message ELSE fallback

\* extractGroupsFromToken: payload["cognito:groups"] || [], [] when the
\* token does not parse (the empty string in particular)
ExtractGroupsFromToken(token) ==
    CASE token = "jwtAdmins"   -> {"admins"}
      [] token = "jwtNoGroups" -> {}
      [] OTHER                 -> {}

\* session.tokens?.accessToken?.toString() for a session whose access token
\* is tok (NULL: the session carries no tokens); undefined is modelled NULL
AccessTokenString(tok) == tok

(***************************************************************************)
(* State                                                                   *)
(***************************************************************************)
VARIABLES
    \* AuthProvider React state
    user, isLoading, needsPasswordChange, challengeSession, sessionTimer,
    \* browser: ids of the setTimeout timers that are pending
    timers,
    \* identity provider: signed-in principal, its access token, and whether
    \* a sign-in challenge is open
    idpUser, idpToken, idpChallenge,
    \* position of each async operation of the auth context, and the
    \* currentUser local of each running checkAuthState
    pc, currentUser,
    \* what the last call of each operation gave back to its caller
    loginResult, cnpResult, logoutResult, tokenResult,
    \* provider calls issued by the running completeNewPassword
    cnpIdpCalls,
    \* number of logout calls that returned one after the other with no other
    \* operation of the auth context in between
    logoutsInRow,
    \* how the identity provider's last signIn / confirmSignIn ended: the
    \* step it reported and the value it threw
    idpOutcome,
    \* add-product form (SiteHeader): React state
    selectedImages, primaryImageIndex, formIsLoading,
    \* the previews shown for the selected images, and the FileReaders that
    \* are still reading a file (how many for each file)
    imagePreviews, readers,
    \* the running onSubmit: its position, loop index, locals, and the
    \* selectedImages / primaryImageIndex its closure captured
    pcSubmit, i, createdProductId, uploadedImages, txImages, txPrimary,
    \* REST backend: product ids, stored image objects (by key), image records
    products, objects, records, nextProductId, nextKey,
    \* the requests the running onSubmit has issued, and the toast it ended with
    reqLog, report,
    \* a backend request outside the add-product form: the position of the
    \* running one, what it is, and every request put on the wire
    apiPc, apiCall, wire,
    \* NewPasswordForm and ResetPasswordForm: React state, and the last
    \* provider call that carried a new password
    npfError, npfLoading, rpfError, rpfLoading, passwordCall,
    \* product edit dialog: the images listed, the busy flag, the running
    \* handleUpdateImageOrder and the toast it ended with
    editingImages, submitting, orderCall, orderToast

authVars == <<user, isLoading, needsPasswordChange, challengeSession, sessionTimer>>
idpVars == <<idpUser, idpToken, idpChallenge>>
ctlVars == <<pc, currentUser>>
resVars == <<loginResult, cnpResult, logoutResult, tokenResult, cnpIdpCalls,
             logoutsInRow, idpOutcome>>
sessionVars == <<authVars, timers, idpVars, ctlVars, resVars>>

previewVars == <<imagePreviews, readers>>
formVars == <<selectedImages, primaryImageIndex, formIsLoading, previewVars>>
txVars == <<pcSubmit, i, createdProductId, uploadedImages, txImages, txPrimary>>
backendVars == <<products, objects, records, nextProductId, nextKey>>
createVars == <<formVars, txVars, backendVars, reqLog, report>>

\* state of the other components
apiVars == <<apiPc, apiCall, wire>>
pwVars == <<npfError, npfLoading, rpfError, rpfLoading, passwordCall>>
orderVars == <<editingImages, submitting, orderCall, orderToast>>
sideVars == <<apiVars, pwVars, orderVars>>

vars == <<sessionVars, createVars, sideVars>>

TimerIds == 1..MaxTimers

\* the async operations of the auth context
Procs == {"startup", "login", "cnp", "logout", "expire", "token"}
\* those that run checkAuthState
Checkers == {"startup", "login", "cnp"}

\* what an operation gave back to its caller
NoResult == [status |-> "none", message |-> ""]
Pending == [status |-> "pending", message |-> ""]
Returned == [status |-> "returned", message |-> ""]
Threw(m) == [status |-> "threw", message |-> m]

(***************************************************************************)
(* Initial state: first render of AuthProvider; the mount effect has       *)
(* called checkAuthState, which is waiting for getCurrentUser.  The        *)
(* provider's browser storage holds whatever an earlier visit left.        *)
(***************************************************************************)
IdpInit ==
    /\ idpUser \in Principals \cup {NoPrincipal}
    /\ idpToken \in Tokens \cup {NULL}
    /\ idpUser = NoPrincipal => idpToken = NULL
    /\ idpChallenge = FALSE

SessionInit ==
    /\ user = NoUser
    /\ isLoading = TRUE
    /\ needsPasswordChange = FALSE
    /\ challengeSession = NULL
    /\ sessionTimer = NoTimer
    /\ timers = {}
    /\ IdpInit
    /\ pc = [p \in Procs |-> IF p = "startup" THEN "getCurrentUser" ELSE "idle"]
    /\ currentUser = [p \in Checkers |-> NoPrincipal]
    /\ loginResult = NoResult
    /\ cnpResult = NoResult
    /\ logoutResult = NoResult
    /\ tokenResult = NoResult
    /\ cnpIdpCalls = 0
    /\ logoutsInRow = 0
    /\ idpOutcome = Outcome("NONE", NonError)

(***************************************************************************)
(* Session timer                                                           *)
(***************************************************************************)
FreeTimers == TimerIds \ (timers \cup {sessionTimer})
\* setTimeout returns an id no pending timer has; the only place an id is
\* kept is sessionTimer, so an id neither pending nor kept can be handed out
NewTimer == CHOOSE t \in FreeTimers : \A s \in FreeTimers : t <= s

\* startSessionTimer without clearTimeout(prevTimer): the previous timer
\* stays pending
StartSessionTimerNoClear ==
    /\ FreeTimers # {}
    /\ sessionTimer' = NewTimer
    /\ timers' = timers \cup {NewTimer}

\* startSessionTimer: clearTimeout(prevTimer); return setTimeout(..., 1 hour)
StartSessionTimer ==
    /\ FreeTimers # {}
    /\ sessionTimer' = NewTimer
    /\ timers' = (timers \ {sessionTimer}) \cup {NewTimer}

\* clearSessionTimer: clearTimeout(prevTimer); return null
ClearSessionTimer ==
    /\ sessionTimer' = NoTimer
    /\ timers' = timers \ {sessionTimer}

(***************************************************************************)
(* checkAuthState, run by p: the mount effect, login or completeNewPassword*)
(***************************************************************************)
\* what the caller of checkAuthState does when it returns
CheckReturns(p) ==
    /\ pc' = [pc EXCEPT ![p] = IF p = "startup" THEN "done" ELSE "idle"]
    /\ loginResult' = IF p = "login" THEN Returned ELSE loginResult
    /\ cnpResult' = IF p = "cnp" THEN Returned ELSE cnpResult

\* checkAuthState's catch without the finally block: isLoading is left as
\* it is
CheckCatchNoFinally(p) ==
    /\ user' = NoUser
    /\ ClearSessionTimer
    /\ CheckReturns(p)
    /\ UNCHANGED <<isLoading, needsPasswordChange, challengeSession, currentUser>>

\* catch { setUser(null); clearSessionTimer() } finally { setIsLoading(false) }
CheckCatch(p) ==
    /\ user' = NoUser
    /\ ClearSessionTimer
    /\ isLoading' = FALSE
    /\ CheckReturns(p)
    /\ UNCHANGED <<needsPasswordChange, challengeSession, currentUser>>

\* getCurrentUser() resolves with the signed-in principal, or throws when
\* there is none
CheckGetCurrentUserDone(p) ==
    /\ pc[p] = "getCurrentUser"
    /\ IF idpUser = NoPrincipal
         THEN CheckCatch(p)
         ELSE /\ currentUser' = [currentUser EXCEPT ![p] = idpUser]
              /\ pc' = [pc EXCEPT ![p] = "fetchAuthSession"]
              /\ UNCHANGED <<authVars, timers, loginResult, cnpResult>>
    /\ cnpIdpCalls' = IF p = "cnp" /\ idpUser # NoPrincipal
                        THEN cnpIdpCalls + 1 ELSE cnpIdpCalls
    /\ logoutsInRow' = 0
    /\ UNCHANGED <<idpVars, logoutResult, tokenResult, idpOutcome>>
    /\ UNCHANGED <<createVars, sideVars>>

\* setUser({username, email, groups}); startSessionTimer();
\* finally { setIsLoading(false) }
CheckSetUser(p) ==
    /\ user' = [username |-> currentUser[p].username,
                email |-> currentUser[p].loginId,
                groups |-> ExtractGroupsFromToken(
                             IF AccessTokenString(idpToken) = NULL
                               THEN "" ELSE AccessTokenString(idpToken))]
    /\ StartSessionTimer
    /\ isLoading' = FALSE
    /\ CheckReturns(p)
    /\ UNCHANGED <<needsPasswordChange, challengeSession, currentUser>>

\* fetchAuthSession() resolves with the session (with or without tokens) or
\* throws
CheckFetchAuthSessionDone(p, throws) ==
    /\ pc[p] = "fetchAuthSession"
    /\ IF throws THEN CheckCatch(p) ELSE CheckSetUser(p)
    /\ logoutsInRow' = 0
    /\ UNCHANGED <<idpVars, logoutResult, tokenResult, idpOutcome, cnpIdpCalls>>
    /\ UNCHANGED <<createVars, sideVars>>

(***************************************************************************)
(* login, called by LoginForm.handleSubmit                                 *)
(***************************************************************************)
\* LoginForm is the only caller of login.  It renders nothing when
\* isAuthenticated, the login page shows NewPasswordForm in its place when
\* needsPasswordChange, and its submit button is disabled while isLoading.
LoginFormEnabled ==
    /\ user = NoUser
    /\ ~needsPasswordChange
    /\ ~isLoading

\* setIsLoading(true); await signIn({username, password})
LoginCall ==
    /\ LoginFormEnabled
    /\ pc["login"] = "idle"
    /\ isLoading' = TRUE
    /\ pc' = [pc EXCEPT !["login"] = "signIn"]
    /\ loginResult' = Pending
    /\ logoutsInRow' = 0
    /\ UNCHANGED <<user, needsPasswordChange, challengeSession, sessionTimer,
                   timers, idpVars, currentUser, cnpResult, logoutResult,
                   tokenResult, cnpIdpCalls, idpOutcome>>
    /\ UNCHANGED <<createVars, sideVars>>

\* login's catch with the provider's message dropped:
\* throw new Error("Login failed")
LoginSignInRejectedGeneric(e) ==
    /\ isLoading' = FALSE
    /\ loginResult' = Threw("Login failed")
    /\ idpOutcome' = Outcome("REJECTED", e)
    /\ pc' = [pc EXCEPT !["login"] = "idle"]
    /\ UNCHANGED <<user, needsPasswordChange, challengeSession, sessionTimer,
                   timers, idpVars>>

\* signIn threw e: catch { setIsLoading(false); throw new Error(message) }
LoginSignInRejected(e) ==
    /\ isLoading' = FALSE
    /\ loginResult' = Threw(ErrorMessage(e, "Login failed"))
    /\ idpOutcome' = Outcome("REJECTED", e)
    /\ pc' = [pc EXCEPT !["login"] = "idle"]
    /\ UNCHANGED <<user, needsPasswordChange, challengeSession, sessionTimer,
                   timers, idpVars>>

\* nextStep.signInStep === "CONFIRM_SIGN_IN_WITH_NEW_PASSWORD_REQUIRED":
\* setNeedsPasswordChange(true); setChallengeSession(result);
\* setIsLoading(false); return
LoginNewPasswordRequired ==
    /\ needsPasswordChange' = TRUE
    /\ challengeSession' = "signInResult"
    /\ isLoading' = FALSE
    /\ loginResult' = Returned
    /\ idpChallenge' = TRUE
    /\ idpOutcome' = Outcome("CONFIRM_SIGN_IN_WITH_NEW_PASSWORD_REQUIRED", NonError)
    /\ pc' = [pc EXCEPT !["login"] = "idle"]
    /\ UNCHANGED <<user, sessionTimer, timers, idpUser, idpToken>>

\* result.isSignedIn: await checkAuthState()
LoginSignedIn(principal, tok) ==
    /\ idpUser' = principal
    /\ idpToken' = tok
    /\ idpChallenge' = FALSE
    /\ idpOutcome' = Outcome("DONE", NonError)
    /\ pc' = [pc EXCEPT !["login"] = "getCurrentUser"]
    /\ UNCHANGED <<authVars, timers, loginResult>>

\* any other sign-in step (a code or MFA challenge, confirm sign-up, ...):
\* isSignedIn is false and neither branch is taken; login returns
LoginOtherStep ==
    /\ loginResult' = Returned
    /\ idpOutcome' = Outcome("OTHER", NonError)
    /\ pc' = [pc EXCEPT !["login"] = "idle"]
    /\ UNCHANGED <<authVars, timers, idpVars>>

\* signIn resolves.  The provider refuses to sign in while a principal is
\* signed in; otherwise it rejects the credentials, asks for a new password,
\* completes, or asks for some other step.
LoginSignInDone ==
    /\ pc["login"] = "signIn"
    /\ IF idpUser # NoPrincipal
         THEN LoginSignInRejected(AlreadySignedIn)
         ELSE \/ \E e \in Thrown : LoginSignInRejected(e)
              \/ LoginNewPasswordRequired
              \/ \E principal \in Principals, tok \in Tokens :
                    LoginSignedIn(principal, tok)
              \/ LoginOtherStep
    /\ logoutsInRow' = 0
    /\ UNCHANGED <<currentUser, cnpResult, logoutResult, tokenResult,
                   cnpIdpCalls>>
    /\ UNCHANGED <<createVars, sideVars>>

(***************************************************************************)
(* logout, called by the Header, the logout dialog and NewPasswordForm     *)
(***************************************************************************)
\* clearSessionTimer(); await signOut()
LogoutCall ==
    /\ pc["logout"] = "idle"
    /\ ClearSessionTimer
    /\ pc' = [pc EXCEPT !["logout"] = "signOut"]
    /\ logoutResult' = Pending
    /\ UNCHANGED <<user, isLoading, needsPasswordChange, challengeSession,
                   idpVars, currentUser, loginResult, cnpResult, tokenResult,
                   cnpIdpCalls, logoutsInRow, idpOutcome>>
    /\ UNCHANGED <<createVars, sideVars>>

\* signOut() resolved: the provider holds no principal, token or challenge
IdpSignedOut ==
    /\ idpUser' = NoPrincipal
    /\ idpToken' = NULL
    /\ idpChallenge' = FALSE

\* signOut() threw: the provider's local session was either removed before
\* the failure or is left as it was
IdpSignOutFailed(removed) ==
    IF removed THEN IdpSignedOut ELSE UNCHANGED idpVars

\* setUser(null); setNeedsPasswordChange(false); setChallengeSession(null)
LogoutSignedOut ==
    /\ IdpSignedOut
    /\ user' = NoUser
    /\ needsPasswordChange' = FALSE
    /\ challengeSession' = NULL
    /\ UNCHANGED <<isLoading, sessionTimer, timers>>

\* catch { clearSessionTimer() }
LogoutCatch(removed) ==
    /\ IdpSignOutFailed(removed)
    /\ ClearSessionTimer
    /\ UNCHANGED <<user, isLoading, needsPasswordChange, challengeSession>>

LogoutSignOutDone ==
    /\ pc["logout"] = "signOut"
    /\ \/ LogoutSignedOut
       \/ \E removed \in BOOLEAN : LogoutCatch(removed)
    /\ pc' = [pc EXCEPT !["logout"] = "idle"]
    /\ logoutResult' = Returned
    /\ logoutsInRow' = IF logoutsInRow < 2 THEN logoutsInRow + 1 ELSE 2
    /\ UNCHANGED <<currentUser, loginResult, cnpResult, tokenResult,
                   cnpIdpCalls, idpOutcome>>
    /\ UNCHANGED <<createVars, sideVars>>

(***************************************************************************)
(* completeNewPassword, called by NewPasswordForm.handleSubmit             *)
(***************************************************************************)
\* completeNewPassword without its guard: confirmSignIn is called although no
\* challenge is stored
CnpNoChallengeUnguarded ==
    /\ cnpResult' = Pending
    /\ cnpIdpCalls' = 1
    /\ pc' = [pc EXCEPT !["cnp"] = "confirmSignIn"]

\* if (!challengeSession) throw new Error("No active challenge session"),
\* rethrown by the catch with the same message; no provider call is made
CnpNoChallenge ==
    /\ cnpResult' = Threw("No active challenge session")
    /\ cnpIdpCalls' = 0
    /\ UNCHANGED pc

\* await confirmSignIn({challengeResponse: newPassword})
CnpConfirmSignIn ==
    /\ cnpResult' = Pending
    /\ cnpIdpCalls' = 1
    /\ pc' = [pc EXCEPT !["cnp"] = "confirmSignIn"]

\* NewPasswordForm is on screen while needsPasswordChange and its buttons
\* are disabled while a call is running; completeNewPassword is also part of
\* the context value, where a consumer can call it with no challenge stored
CompleteNewPasswordCall ==
    /\ pc["cnp"] = "idle"
    /\ needsPasswordChange \/ challengeSession = NULL
    /\ IF challengeSession = NULL THEN CnpNoChallenge ELSE CnpConfirmSignIn
    /\ logoutsInRow' = 0
    /\ UNCHANGED <<authVars, timers, idpVars, currentUser, loginResult,
                   logoutResult, tokenResult, idpOutcome>>
    /\ UNCHANGED <<createVars, sideVars>>

\* confirmSignIn threw e: catch { throw new Error(message) }
CnpRejected(e) ==
    /\ cnpResult' = Threw(ErrorMessage(e, "Password change failed"))
    /\ idpOutcome' = Outcome("REJECTED", e)
    /\ pc' = [pc EXCEPT !["cnp"] = "idle"]
    /\ UNCHANGED <<authVars, timers, idpVars, cnpIdpCalls>>

\* completeNewPassword's success branch without its two setters: the
\* challenge handle and needsPasswordChange are kept
CnpSignedInKeepsChallenge(principal, tok) ==
    /\ idpUser' = principal
    /\ idpToken' = tok
    /\ idpChallenge' = FALSE
    /\ cnpIdpCalls' = cnpIdpCalls + 1
    /\ idpOutcome' = Outcome("DONE", NonError)
    /\ pc' = [pc EXCEPT !["cnp"] = "getCurrentUser"]
    /\ UNCHANGED <<authVars, timers, cnpResult>>

\* result.isSignedIn: setNeedsPasswordChange(false);
\* setChallengeSession(null); await checkAuthState()
CnpSignedIn(principal, tok) ==
    /\ idpUser' = principal
    /\ idpToken' = tok
    /\ idpChallenge' = FALSE
    /\ needsPasswordChange' = FALSE
    /\ challengeSession' = NULL
    /\ cnpIdpCalls' = cnpIdpCalls + 1
    /\ idpOutcome' = Outcome("DONE", NonError)
    /\ pc' = [pc EXCEPT !["cnp"] = "getCurrentUser"]
    /\ UNCHANGED <<user, isLoading, sessionTimer, timers, cnpResult>>

\* else throw new Error("Sign-in was not completed after password change")
CnpNotSignedIn ==
    /\ cnpResult' = Threw("Sign-in was not completed after password change")
    /\ idpOutcome' = Outcome("OTHER", NonError)
    /\ pc' = [pc EXCEPT !["cnp"] = "idle"]
    /\ UNCHANGED <<authVars, timers, idpVars, cnpIdpCalls>>

\* confirmSignIn resolves.  With no open challenge at the provider (a
\* signOut closed it) it throws; otherwise it completes the sign-in, rejects
\* the password, or asks for a further step.
CnpConfirmSignInDone ==
    /\ pc["cnp"] = "confirmSignIn"
    /\ IF ~idpChallenge
         THEN \E e \in Thrown : CnpRejected(e)
         ELSE \/ \E e \in Thrown : CnpRejected(e)
              \/ \E principal \in Principals, tok \in Tokens :
                    CnpSignedIn(principal, tok)
              \/ CnpNotSignedIn
    /\ logoutsInRow' = 0
    /\ UNCHANGED <<currentUser, loginResult, logoutResult, tokenResult>>
    /\ UNCHANGED <<createVars, sideVars>>

(***************************************************************************)
(* The expiry timer's callback                                             *)
(***************************************************************************)
\* the timeout elapses: the callback starts with await signOut()
TimerFires ==
    /\ pc["expire"] = "idle"
    /\ \E t \in timers : timers' = timers \ {t}
    /\ pc' = [pc EXCEPT !["expire"] = "signOut"]
    /\ logoutsInRow' = 0
    /\ UNCHANGED <<authVars, idpVars, currentUser, loginResult, cnpResult,
                   logoutResult, tokenResult, cnpIdpCalls, idpOutcome>>
    /\ UNCHANGED <<createVars, sideVars>>

\* setUser(null); setNeedsPasswordChange(false); setChallengeSession(null);
\* alert("Your session has expired...")
ExpireSignedOut ==
    /\ IdpSignedOut
    /\ user' = NoUser
    /\ needsPasswordChange' = FALSE
    /\ challengeSession' = NULL
    /\ UNCHANGED <<isLoading, sessionTimer>>

\* signOut() threw inside the callback: nothing catches it, the rest of the
\* callback does not run
ExpireSignOutThrew(removed) ==
    /\ IdpSignOutFailed(removed)
    /\ UNCHANGED authVars

ExpireSignOutDone ==
    /\ pc["expire"] = "signOut"
    /\ \/ ExpireSignedOut
       \/ \E removed \in BOOLEAN : ExpireSignOutThrew(removed)
    /\ pc' = [pc EXCEPT !["expire"] = "idle"]
    /\ logoutsInRow' = 0
    /\ UNCHANGED <<timers, currentUser, loginResult, cnpResult, logoutResult,
                   tokenResult, cnpIdpCalls, idpOutcome>>
    /\ UNCHANGED <<createVars, sideVars>>

(***************************************************************************)
(* getAuthToken                                                            *)
(***************************************************************************)
\* await fetchAuthSession()
GetAuthTokenCall ==
    /\ pc["token"] = "idle"
    /\ pc' = [pc EXCEPT !["token"] = "fetchAuthSession"]
    /\ tokenResult' = Pending
    /\ UNCHANGED <<authVars, timers, idpVars, currentUser, loginResult,
                   cnpResult, logoutResult, cnpIdpCalls, logoutsInRow,
                   idpOutcome>>
    /\ UNCHANGED <<createVars, sideVars>>

\* return session.tokens?.accessToken?.toString() || null; catch: return null
GetAuthTokenValue(throws) ==
    IF throws THEN NULL ELSE AccessTokenString(idpToken)

GetAuthTokenDone ==
    /\ pc["token"] = "fetchAuthSession"
    /\ \E throws \in BOOLEAN :
          tokenResult' = [status |-> "returned",
                          message |-> GetAuthTokenValue(throws)]
    /\ pc' = [pc EXCEPT !["token"] = "idle"]
    /\ UNCHANGED <<authVars, timers, idpVars, currentUser, loginResult,
                   cnpResult, logoutResult, cnpIdpCalls, logoutsInRow,
                   idpOutcome>>
    /\ UNCHANGED <<createVars, sideVars>>

(***************************************************************************)
(* The provider's access token expires and cannot be refreshed: sessions   *)
(* fetched from now on carry no tokens, while the stored principal stays   *)
(* until a signOut.  Nothing but this app's own calls and the passing of   *)
(* time changes the provider's state during a run.                         *)
(***************************************************************************)
IdpTokenExpires ==
    /\ idpToken # NULL
    /\ idpToken' = NULL
    /\ UNCHANGED <<authVars, timers, idpUser, idpChallenge, ctlVars, resVars>>
    /\ UNCHANGED <<createVars, sideVars>>

(***************************************************************************)
(* The auth context                                                        *)
(***************************************************************************)
CheckAuthState ==
    \E p \in Checkers :
       \/ CheckGetCurrentUserDone(p)
       \/ \E throws \in BOOLEAN : CheckFetchAuthSessionDone(p, throws)

SessionNext ==
    \/ CheckAuthState
    \/ LoginCall
    \/ LoginSignInDone
    \/ LogoutCall
    \/ LogoutSignOutDone
    \/ CompleteNewPasswordCall
    \/ CnpConfirmSignInDone
    \/ TimerFires
    \/ ExpireSignOutDone
    \/ GetAuthTokenCall
    \/ GetAuthTokenDone
    \/ IdpTokenExpires


(***************************************************************************)
(* Add-product form: values                                                *)
(***************************************************************************)
\* files the user can pick, and the types handleImageSelect accepts
Files == {"a.png", "c.gif"}
\* two images of an accepted type, for the properties that tell the selected
\* files apart
Photos == {"a.png", "b.png"}
ValidType(f) == f \in {"a.png", "b.png"}

\* e.target.result of the FileReader that read f: the data URL of f
PreviewOf(f) == [dataUrlOf |-> f]

\* createdProductId === null; the backend assigns positive ids
NoProduct == 0

\* the files picked in one change event of the file input
Picks == {<<f>> : f \in Files} \cup {<<f, g>> : f \in Files, g \in Files}

\* toasts onSubmit ends with
NoReport == [kind |-> "none", productId |-> NoProduct]
Success == [kind |-> "success", productId |-> NoProduct]
RolledBack == [kind |-> "rolledBack", productId |-> NoProduct]
ManualCleanup(id) == [kind |-> "manualCleanup", productId |-> id]

CreateInit ==
    /\ selectedImages = <<>>
    /\ primaryImageIndex = 0
    /\ formIsLoading = FALSE
    /\ imagePreviews = <<>>
    /\ readers = [f \in Files \cup Photos |-> 0]
    /\ pcSubmit = "idle"
    /\ i = 0
    /\ createdProductId = NoProduct
    /\ uploadedImages = <<>>
    /\ txImages = <<>>
    /\ txPrimary = 0
    /\ products = {}
    /\ objects = {}
    /\ records = {}
    /\ nextProductId = 1
    /\ nextKey = 1
    /\ reqLog = <<>>
    /\ report = NoReport

(***************************************************************************)
(* Image selection                                                         *)
(***************************************************************************)
\* prev.filter((_, i) => i !== index), index counted from 0
RemoveAt(seq, index) ==
    [k \in 1..(Len(seq) - (IF index + 1 \in 1..Len(seq) THEN 1 ELSE 0)) |->
        IF k <= index THEN seq[k] ELSE seq[k + 1]]

\* the number of FileReaders that have not fired onload yet
Reading == LET Sum[S \in SUBSET DOMAIN readers] ==
                  IF S = {} THEN 0
                  ELSE LET f == CHOOSE x \in S : TRUE
                       IN  readers[f] + Sum[S \ {f}]
           IN  Sum[DOMAIN readers]

\* the number of elements of files that are f
CountOf(files, f) == Cardinality({k \in 1..Len(files) : files[k] = f})

\* handleImageSelect: a pick with a file of another type is refused whole;
\* an accepted pick is appended and a FileReader is started for each file.
\* The user picks while the previews shown and the previews still to come
\* fit in MaxImages.
HandleImageSelect(files) ==
    /\ Len(selectedImages) + Len(files) <= MaxImages
    /\ Len(imagePreviews) + Reading + Len(files) <= MaxImages
    /\ IF \A k \in 1..Len(files) : ValidType(files[k])
         THEN /\ selectedImages' = selectedImages \o files
              /\ readers' = [f \in DOMAIN readers |->
                                readers[f] + CountOf(files, f)]
         ELSE UNCHANGED <<selectedImages, readers>>
    /\ UNCHANGED <<primaryImageIndex, formIsLoading, imagePreviews, txVars,
                   backendVars, reqLog, report>>
    /\ UNCHANGED <<sessionVars, sideVars>>

\* reader.onload of a FileReader that read f:
\* setImagePreviews((prev) => [...prev, e.target.result])
PreviewLoaded(f) ==
    /\ readers[f] > 0
    /\ readers' = [readers EXCEPT ![f] = readers[f] - 1]
    /\ imagePreviews' = Append(imagePreviews, PreviewOf(f))
    /\ UNCHANGED <<selectedImages, primaryImageIndex, formIsLoading, txVars,
                   backendVars, reqLog, report>>
    /\ UNCHANGED <<sessionVars, sideVars>>

\* removeImage without the adjustment of the primary index
RemovePrimaryIndexKept(index) == primaryImageIndex

\* removeImage with `===` in place of `>=`: the index is adjusted only when
\* the primary image itself is removed
RemovePrimaryIndexOwnOnly(index) ==
    IF primaryImageIndex = index /\ primaryImageIndex > 0
      THEN primaryImageIndex - 1 ELSE primaryImageIndex

\* removeImage(index), index of a listed image
RemovePrimaryIndex(index) ==
    IF primaryImageIndex >= index /\ primaryImageIndex > 0
      THEN primaryImageIndex - 1 ELSE primaryImageIndex

RemoveImage(index) ==
    /\ index \in 0..(Len(selectedImages) - 1)
    /\ selectedImages' = RemoveAt(selectedImages, index)
    /\ imagePreviews' = RemoveAt(imagePreviews, index)
    /\ primaryImageIndex' = RemovePrimaryIndex(index)
    /\ UNCHANGED <<formIsLoading, readers, txVars, backendVars, reqLog, report>>
    /\ UNCHANGED <<sessionVars, sideVars>>

\* setPrimaryImage(index), index of a listed image
SetPrimaryImage(index) ==
    /\ index \in 0..(Len(selectedImages) - 1)
    /\ primaryImageIndex' = index
    /\ UNCHANGED <<selectedImages, formIsLoading, previewVars, txVars,
                   backendVars, reqLog, report>>
    /\ UNCHANGED <<sessionVars, sideVars>>

(***************************************************************************)
(* onSubmit (SiteHeader) / onSubmitAddProduct (products page)              *)
(***************************************************************************)
Request(op, index) == [op |-> op, index |-> index, status |-> "inflight"]
\* a request that is not awaited: the next one is issued while it is still
\* in flight
ResolvedNotAwaited(log, status) == log

\* the request in flight (the last one issued) got its response
Resolved(log, status) == [log EXCEPT ![Len(log)].status = status]

\* imageRecordSchema.parse(requestBody)
ImageRecordValid(body) ==
    /\ body.product_id > 0
    /\ body.image_key > 0
    /\ body.display_order > 0
    /\ body.is_primary \in BOOLEAN

\* the request body saveImageRecord builds for the image at index
RequestBody(productId, uploaded, index, primary) ==
    [product_id |-> productId,
     image_key |-> uploaded[index + 1],
     display_order |-> index + 1,
     is_primary |-> (index = primary)]

\* the code goes on to await one more request
Issue(log, op, index) ==
    /\ pcSubmit' = op
    /\ i' = index
    /\ reqLog' = Append(log, Request(op, index))
    /\ UNCHANGED <<selectedImages, primaryImageIndex, formIsLoading,
                   previewVars, report>>

\* what the error toast names: errorMessage is one of two fixed sentences
\* chosen by rollbackSuccessful, the second with createdProductId in it; the
\* error the try block threw goes to console.error only
ToastNames(r) ==
    [steps |-> {},
     images |-> {},
     products |-> IF r.kind = "manualCleanup" THEN {r.productId} ELSE {}]

\* end of the catch block: toast.error(errorMessage);
\* finally { setIsLoading(false) }
EndFailed(log, rollbackSuccessful) ==
    /\ report' = IF rollbackSuccessful THEN RolledBack
                 ELSE ManualCleanup(createdProductId)
    /\ formIsLoading' = FALSE
    /\ pcSubmit' = "idle"
    /\ reqLog' = log
    /\ UNCHANGED <<selectedImages, primaryImageIndex, previewVars, i>>

\* a catch block without `if (createdProductId)`: the delete is requested
\* whether or not a product was created
BeginRollbackUnguarded(log) == Issue(log, "deleteProduct", i)

\* a catch block that reports the failure and rolls nothing back
BeginRollbackNoDelete(log) == EndFailed(log, FALSE)

\* catch (error): if (createdProductId) { await deleteProduct(...) ... }
BeginRollback(log) ==
    IF createdProductId # NoProduct
      THEN Issue(log, "deleteProduct", i)
      ELSE EndFailed(log, FALSE)

\* a workflow that reports success once the uploads are done, without
\* writing the image records
BeginSaveRecordSkipped(log, uploaded, index) ==
    /\ selectedImages' = <<>>
    /\ imagePreviews' = <<>>
    /\ primaryImageIndex' = 0
    /\ report' = Success
    /\ formIsLoading' = FALSE
    /\ pcSubmit' = "idle"
    /\ reqLog' = log
    /\ UNCHANGED <<i, readers>>

\* saveImageRecord(createdProductId, uploadedImages[index], index + 1,
\* index === primaryImageIndex): validate, then POST the record
BeginSaveRecord(log, uploaded, index) ==
    IF ImageRecordValid(RequestBody(createdProductId, uploaded, index, txPrimary))
      THEN Issue(log, "saveRecord", index)
      ELSE BeginRollback(log)

\* success: reset the form, toast.success; finally { setIsLoading(false) }
EndSuccess(log) ==
    /\ selectedImages' = <<>>
    /\ imagePreviews' = <<>>
    /\ primaryImageIndex' = 0
    /\ report' = Success
    /\ formIsLoading' = FALSE
    /\ pcSubmit' = "idle"
    /\ reqLog' = log
    /\ UNCHANGED <<i, readers>>

\* the submit handler starts: guards, then await apiClient.post("/products")
SubmitStart ==
    /\ nextProductId <= MaxProducts
    /\ formIsLoading' = TRUE
    /\ createdProductId' = NoProduct
    /\ uploadedImages' = <<>>
    /\ txImages' = selectedImages
    /\ txPrimary' = primaryImageIndex
    /\ pcSubmit' = "createProduct"
    /\ i' = 0
    /\ reqLog' = <<Request("createProduct", 0)>>
    /\ report' = NoReport
    /\ UNCHANGED <<selectedImages, primaryImageIndex, previewVars>>

\* an onSubmit without `if (isLoading) return`: a submit starts a transaction
\* whether or not one is running
SubmitCallUnguarded ==
    /\ pcSubmit = "idle" \/ formIsLoading
    /\ IF Len(selectedImages) = 0
         THEN /\ report' = [kind |-> "selectImage", productId |-> NoProduct]
              /\ UNCHANGED <<formVars, txVars, reqLog>>
         ELSE SubmitStart
    /\ UNCHANGED backendVars
    /\ UNCHANGED <<sessionVars, sideVars>>

SubmitCall ==
    /\ pcSubmit = "idle" \/ formIsLoading
    /\ IF Len(selectedImages) = 0
         THEN /\ report' = [kind |-> "selectImage", productId |-> NoProduct]
              /\ UNCHANGED <<formVars, txVars, reqLog>>
         ELSE IF formIsLoading
                THEN UNCHANGED <<formVars, txVars, reqLog, report>>
                ELSE SubmitStart
    /\ UNCHANGED backendVars
    /\ UNCHANGED <<sessionVars, sideVars>>

\* POST /products resolves
CreateProductDone(ok) ==
    /\ pcSubmit = "createProduct"
    /\ IF ok
         THEN /\ products' = products \cup {nextProductId}
              /\ nextProductId' = nextProductId + 1
              /\ createdProductId' = nextProductId
              /\ Issue(Resolved(reqLog, "ok"), "upload", 0)
         ELSE /\ BeginRollback(Resolved(reqLog, "failed"))
              /\ UNCHANGED <<products, nextProductId, createdProductId>>
    /\ UNCHANGED <<uploadedImages, txImages, txPrimary, objects, records,
                   nextKey>>
    /\ UNCHANGED <<sessionVars, sideVars>>

\* POST /products/images/upload of image i resolves
UploadDone(ok) ==
    /\ pcSubmit = "upload"
    /\ IF ok
         THEN /\ objects' = objects \cup {nextKey}
              /\ nextKey' = nextKey + 1
              /\ uploadedImages' = Append(uploadedImages, nextKey)
              /\ IF i + 1 < Len(txImages)
                   THEN Issue(Resolved(reqLog, "ok"), "upload", i + 1)
                   ELSE BeginSaveRecord(Resolved(reqLog, "ok"),
                                        Append(uploadedImages, nextKey), 0)
         ELSE /\ BeginRollback(Resolved(reqLog, "failed"))
              /\ UNCHANGED <<objects, nextKey, uploadedImages>>
    /\ UNCHANGED <<createdProductId, txImages, txPrimary, products, records,
                   nextProductId>>
    /\ UNCHANGED <<sessionVars, sideVars>>

\* POST /products/images/record of image i resolves
SaveRecordDone(ok) ==
    /\ pcSubmit = "saveRecord"
    /\ IF ok
         THEN /\ records' = records \cup
                   {RequestBody(createdProductId, uploadedImages, i, txPrimary)}
              /\ IF i + 1 < Len(uploadedImages)
                   THEN BeginSaveRecord(Resolved(reqLog, "ok"),
                                        uploadedImages, i + 1)
                   ELSE EndSuccess(Resolved(reqLog, "ok"))
         ELSE /\ BeginRollback(Resolved(reqLog, "failed"))
              /\ UNCHANGED records
    /\ UNCHANGED <<createdProductId, uploadedImages, txImages, txPrimary,
                   products, objects, nextProductId, nextKey>>
    /\ UNCHANGED <<sessionVars, sideVars>>

\* DELETE /products/{id} resolves; deleteProduct rethrows a failure, which
\* ends the rollback with rollbackSuccessful = false
DeleteProductDone(ok) ==
    /\ pcSubmit = "deleteProduct"
    /\ IF ok
         THEN /\ products' = products \ {createdProductId}
              /\ Issue(Resolved(reqLog, "ok"), "deleteImages", i)
         ELSE /\ EndFailed(Resolved(reqLog, "failed"), FALSE)
              /\ UNCHANGED products
    /\ UNCHANGED <<createdProductId, uploadedImages, txImages, txPrimary,
                   objects, records, nextProductId, nextKey>>
    /\ UNCHANGED <<sessionVars, sideVars>>

\* what DELETE /products/{id}/images removes: the image records of the
\* product and the stored objects those records name
RecordsOf(id) == {r \in records : r.product_id = id}

\* a deleteProductImages that rethrows: a failure of the dependents' delete
\* reaches the rollback's catch, which sets rollbackSuccessful = false
DeleteImagesDonePropagates(ok) ==
    /\ pcSubmit = "deleteImages"
    /\ IF ok
         THEN /\ records' = records \ RecordsOf(createdProductId)
              /\ objects' = objects \
                    {r.image_key : r \in RecordsOf(createdProductId)}
         ELSE UNCHANGED <<records, objects>>
    /\ EndFailed(Resolved(reqLog, IF ok THEN "ok" ELSE "failed"), ok)
    /\ UNCHANGED <<createdProductId, uploadedImages, txImages, txPrimary,
                   products, nextProductId, nextKey>>
    /\ UNCHANGED <<sessionVars, sideVars>>

\* DELETE /products/{id}/images resolves; deleteProductImages swallows a
\* failure, so rollbackSuccessful = true either way
DeleteImagesDone(ok) ==
    /\ pcSubmit = "deleteImages"
    /\ IF ok
         THEN /\ records' = records \ RecordsOf(createdProductId)
              /\ objects' = objects \
                    {r.image_key : r \in RecordsOf(createdProductId)}
         ELSE UNCHANGED <<records, objects>>
    /\ EndFailed(Resolved(reqLog, IF ok THEN "ok" ELSE "failed"), TRUE)
    /\ UNCHANGED <<createdProductId, uploadedImages, txImages, txPrimary,
                   products, nextProductId, nextKey>>
    /\ UNCHANGED <<sessionVars, sideVars>>

CreateNext ==
    \/ \E files \in Picks : HandleImageSelect(files)
    \/ \E f \in Files : PreviewLoaded(f)
    \/ \E index \in 0..(MaxImages - 1) : RemoveImage(index)
    \/ \E index \in 0..(MaxImages - 1) : SetPrimaryImage(index)
    \/ SubmitCall
    \/ \E ok \in BOOLEAN : CreateProductDone(ok)
    \/ \E ok \in BOOLEAN : UploadDone(ok)
    \/ \E ok \in BOOLEAN : SaveRecordDone(ok)
    \/ \E ok \in BOOLEAN : DeleteProductDone(ok)
    \/ \E ok \in BOOLEAN : DeleteImagesDone(ok)

(***************************************************************************)
(* Requests to the REST backend: ApiClient.request (src/src/lib/           *)
(* api-client.ts), which every apiClient.get/post/put/delete goes through, *)
(* and the one call site that uses fetch itself, OrderDetails.             *)
(***************************************************************************)
\* number of requests put on the wire in a run
MaxRequests == 2

Methods == {"GET", "POST", "PUT", "DELETE"}

\* the Authorization header of a request: absent, or `Bearer ${token}`
NoHeader == [scheme |-> "none", token |-> NULL]
Bearer(token) == [scheme |-> "Bearer", token |-> token]

NoCall == [via |-> "none", method |-> "none"]

ApiInit ==
    /\ apiPc = "idle"
    /\ apiCall = NoCall
    /\ wire = <<>>

\* fetch(fullUrl, config): the request goes out with the headers built so
\* far; `token` is the access token the provider had for it
Send(call, authorization, token) ==
    /\ wire' = Append(wire, [via |-> call.via, method |-> call.method,
                             authorization |-> authorization, token |-> token])
    /\ apiCall' = call
    /\ apiPc' = "fetch"

\* apiClient.get / post / put / delete: request() builds the headers and
\* awaits fetchAuthSession()
ApiClientRequest(method) ==
    /\ apiPc = "idle"
    /\ Len(wire) < MaxRequests
    /\ apiCall' = [via |-> "apiClient", method |-> method]
    /\ apiPc' = "fetchAuthSession"
    /\ UNCHANGED wire
    /\ UNCHANGED <<sessionVars, createVars, pwVars, orderVars>>

\* the header request() ends up with: if (token) headers.Authorization =
\* `Bearer ${token}`; catch { } leaves the headers as they are
AuthorizationFor(token) ==
    IF token # NULL THEN Bearer(token) ELSE NoHeader

\* fetchAuthSession() resolves or throws; then await fetch(fullUrl, config)
ApiFetchAuthSessionDone(throws) ==
    /\ apiPc = "fetchAuthSession"
    /\ Send(apiCall,
            AuthorizationFor(IF throws THEN NULL ELSE AccessTokenString(idpToken)),
            IF throws THEN NULL ELSE idpToken)
    /\ UNCHANGED <<sessionVars, createVars, pwVars, orderVars>>

\* fetch resolves or rejects: request() returns the data, or throws on a
\* network error or a status that is not ok
ApiFetchDone(ok) ==
    /\ apiPc = "fetch"
    /\ apiPc' = "idle"
    /\ apiCall' = NoCall
    /\ UNCHANGED wire
    /\ UNCHANGED <<sessionVars, createVars, pwVars, orderVars>>

\* OrderDetails, fetchOrderDetails: await fetch(`.../orders/${orderId}`),
\* with no options
FetchOrderDetails ==
    /\ apiPc = "idle"
    /\ Len(wire) < MaxRequests
    /\ Send([via |-> "fetch", method |-> "GET"], NoHeader, idpToken)
    /\ UNCHANGED <<sessionVars, createVars, pwVars, orderVars>>

ApiNext ==
    \/ \E method \in Methods : ApiClientRequest(method)
    \/ \E throws \in BOOLEAN : ApiFetchAuthSessionDone(throws)
    \/ \E ok \in BOOLEAN : ApiFetchDone(ok)
    \/ FetchOrderDetails
    \/ IdpTokenExpires

(***************************************************************************)
(* The two forms that take a new password: NewPasswordForm (shown while    *)
(* needsPasswordChange) and ResetPasswordForm (the reset link's page)      *)
(***************************************************************************)
\* a password, by what a check can read: its length and the character
\* classes it contains; the passwords typed have every class or lack one
PasswordLengths == {7, 8, 12}
Passwords ==
    {pw \in [length : PasswordLengths, upper : BOOLEAN, lower : BOOLEAN,
             digit : BOOLEAN, special : BOOLEAN] :
        Cardinality({c \in {"upper", "lower", "digit", "special"} :
                        ~(CASE c = "upper" -> pw.upper
                            [] c = "lower" -> pw.lower
                            [] c = "digit" -> pw.digit
                            [] OTHER -> pw.special)}) <= 1}

\* the last provider call that carried a new password
NoPasswordCall ==
    [api |-> "none",
     password |-> [length |-> 0, upper |-> FALSE, lower |-> FALSE,
                   digit |-> FALSE, special |-> FALSE]]
PasswordCall(api, pw) == [api |-> api, password |-> pw]

PasswordInit ==
    /\ npfError = ""
    /\ npfLoading = FALSE
    /\ rpfError = ""
    /\ rpfLoading = FALSE
    /\ passwordCall = NoPasswordCall

\* the checks without the comparison of the two fields
LocalPasswordErrorNoMatch(pw, matches) ==
    IF pw.length < 8 THEN "Password must be at least 8 characters long"
    ELSE ""

\* the checks both handleSubmit functions make on the password before the
\* call: the error they set, "" when they let it through
LocalPasswordError(pw, matches) ==
    IF ~matches THEN "Passwords do not match"
    ELSE IF pw.length < 8 THEN "Password must be at least 8 characters long"
    ELSE ""

\* NewPasswordForm.handleSubmit up to its await: setError(""), the two
\* checks, setLoading(true), completeNewPassword(newPassword), which throws
\* at once with no challenge stored and awaits confirmSignIn otherwise
NewPasswordFormSubmit(pw, matches) ==
    /\ needsPasswordChange
    /\ ~npfLoading
    /\ pc["cnp"] = "idle"
    /\ IF LocalPasswordError(pw, matches) # ""
         THEN /\ npfError' = LocalPasswordError(pw, matches)
              /\ UNCHANGED <<npfLoading, passwordCall, sessionVars>>
         ELSE /\ IF challengeSession = NULL
                   THEN /\ CnpNoChallenge
                        /\ npfError' = "No active challenge session"
                        /\ UNCHANGED <<npfLoading, passwordCall>>
                   ELSE /\ CnpConfirmSignIn
                        /\ npfError' = ""
                        /\ npfLoading' = TRUE
                        /\ passwordCall' = PasswordCall("confirmSignIn", pw)
              /\ logoutsInRow' = 0
              /\ UNCHANGED <<authVars, timers, idpVars, currentUser,
                             loginResult, logoutResult, tokenResult, idpOutcome>>
    /\ UNCHANGED <<rpfError, rpfLoading>>
    /\ UNCHANGED <<createVars, apiVars, orderVars>>

\* completeNewPassword has returned or thrown: catch { setError(err.message) }
\* finally { setLoading(false) }
NewPasswordFormSettled ==
    /\ npfLoading
    /\ cnpResult # Pending
    /\ npfError' = IF cnpResult.status = "threw" THEN cnpResult.message ELSE npfError
    /\ npfLoading' = FALSE
    /\ UNCHANGED <<rpfError, rpfLoading, passwordCall>>
    /\ UNCHANGED <<sessionVars, createVars, apiVars, orderVars>>

\* ResetPasswordForm.handleSubmit up to its await: the email and code checks,
\* the two password checks, setIsLoading(true), resetPasswordConfirm(email,
\* code, newPassword), which awaits confirmResetPassword
ResetPasswordFormSubmit(email, code, pw, matches) ==
    /\ ~rpfLoading
    /\ IF ~email
         THEN /\ rpfError' = "Email address is required"
              /\ UNCHANGED <<rpfLoading, passwordCall>>
         ELSE IF ~code
                THEN /\ rpfError' = "Verification code is required"
                     /\ UNCHANGED <<rpfLoading, passwordCall>>
                ELSE IF LocalPasswordError(pw, matches) # ""
                       THEN /\ rpfError' = LocalPasswordError(pw, matches)
                            /\ UNCHANGED <<rpfLoading, passwordCall>>
                       ELSE /\ rpfError' = ""
                            /\ rpfLoading' = TRUE
                            /\ passwordCall' =
                                  PasswordCall("confirmResetPassword", pw)
    /\ UNCHANGED <<npfError, npfLoading>>
    /\ UNCHANGED <<sessionVars, createVars, apiVars, orderVars>>

\* confirmResetPassword resolves (router.push to the login page) or throws e
\* (resetPasswordConfirm rethrows its message, the form shows it);
\* finally { setIsLoading(false) }
ResetPasswordConfirmDone(ok, e) ==
    /\ rpfLoading
    /\ rpfError' = IF ok THEN rpfError
                   ELSE ErrorMessage(e, "Failed to reset password")
    /\ rpfLoading' = FALSE
    /\ UNCHANGED <<npfError, npfLoading, passwordCall>>
    /\ UNCHANGED <<sessionVars, createVars, apiVars, orderVars>>

\* the password forms, with the part of the auth context that leads to
\* NewPasswordForm and completes its call
PasswordNext ==
    \/ CheckAuthState
    \/ LoginCall
    \/ LoginSignInDone
    \/ \E pw \in Passwords, matches \in BOOLEAN :
          NewPasswordFormSubmit(pw, matches)
    \/ CnpConfirmSignInDone
    \/ NewPasswordFormSettled
    \/ \E email \in BOOLEAN, code \in BOOLEAN, pw \in Passwords,
          matches \in BOOLEAN :
          ResetPasswordFormSubmit(email, code, pw, matches)
    \/ \E ok \in BOOLEAN, e \in Thrown : ResetPasswordConfirmDone(ok, e)

(***************************************************************************)
(* The product edit dialog's image list (src/src/app/products/page.tsx):   *)
(* editingImages, shown sorted by display_order, and the buttons that move *)
(* an image up or down                                                     *)
(***************************************************************************)
\* most images a product has when its edit dialog is opened
MaxEditImages == 3
\* largest display_order of such an image
MaxOrder == 4

ImageIds == 1..MaxEditImages

\* product.images: images 1..n with display_order values that differ
ProductImages ==
    UNION {{[k \in 1..n |-> [id |-> k, display_order |-> o[k]]] :
              o \in {f \in [1..n -> 1..MaxOrder] :
                        \A a, b \in 1..n : a # b => f[a] # f[b]}} :
           n \in 1..MaxEditImages}

NoOrderCall == [imageId |-> 0, newOrder |-> 0, from |-> 0, dir |-> "none"]

OrderInit ==
    /\ editingImages = <<>>
    /\ submitting = FALSE
    /\ orderCall = NoOrderCall
    /\ orderToast = ""

\* Array.prototype.sort((a, b) => a.display_order - b.display_order): a
\* stable sort, elements of equal display_order keep their order
InsertByOrder(sorted, img) ==
    LET k == Cardinality({j \in 1..Len(sorted) :
                             sorted[j].display_order <= img.display_order})
    IN  SubSeq(sorted, 1, k) \o <<img>> \o SubSeq(sorted, k + 1, Len(sorted))

RECURSIVE SortByOrder(_)
SortByOrder(images) ==
    IF images = <<>> THEN <<>>
    ELSE InsertByOrder(SortByOrder(SubSeq(images, 1, Len(images) - 1)),
                       images[Len(images)])

\* editingImages.findIndex((img) => img.id === imageId), -1 when absent
FindIndex(images, imageId) ==
    IF \E k \in 1..Len(images) : images[k].id = imageId
      THEN (CHOOSE k \in 1..Len(images) :
               /\ images[k].id = imageId
               /\ \A j \in 1..(k - 1) : images[j].id # imageId) - 1
      ELSE -1

\* openEditDialog: setEditingImages(product.images || []); the dialog's
\* render sorts the array in place
OpenEditDialog(images) ==
    /\ ~submitting
    /\ editingImages' = SortByOrder(images)
    /\ UNCHANGED <<submitting, orderCall, orderToast>>
    /\ UNCHANGED <<sessionVars, createVars, apiVars, pwVars>>

\* handleUpdateImageOrder up to its await: setSubmitting(true);
\* await apiClient.put(`/products/images/record/${imageId}`, {display_order})
HandleUpdateImageOrder(imageId, newOrder, from, dir) ==
    /\ submitting' = TRUE
    /\ orderCall' = [imageId |-> imageId, newOrder |-> newOrder,
                     from |-> from, dir |-> dir]
    /\ UNCHANGED <<editingImages, orderToast>>

\* moveImageUp(imageId), called by the button of a listed image; the
\* buttons are disabled while submitting
MoveImageUp(imageId) ==
    /\ ~submitting
    /\ FindIndex(editingImages, imageId) >= 0
    /\ LET imageIndex == FindIndex(editingImages, imageId)
       IN  IF imageIndex > 0
             THEN HandleUpdateImageOrder(
                     imageId, editingImages[imageIndex].display_order,
                     imageIndex, "up")
             ELSE UNCHANGED <<editingImages, submitting, orderCall, orderToast>>
    /\ UNCHANGED <<sessionVars, createVars, apiVars, pwVars>>

\* moveImageDown(imageId), called by the button of a listed image
MoveImageDown(imageId) ==
    /\ ~submitting
    /\ FindIndex(editingImages, imageId) >= 0
    /\ LET imageIndex == FindIndex(editingImages, imageId)
       IN  IF imageIndex < Len(editingImages) - 1
             THEN HandleUpdateImageOrder(
                     imageId, editingImages[imageIndex + 2].display_order,
                     imageIndex, "down")
             ELSE UNCHANGED <<editingImages, submitting, orderCall, orderToast>>
    /\ UNCHANGED <<sessionVars, createVars, apiVars, pwVars>>

\* the PUT resolves: the image gets the new display_order and the list is
\* sorted, toast.success; or catch: toast.error; finally setSubmitting(false)
UpdateImageOrderDone(ok) ==
    /\ orderCall # NoOrderCall
    /\ IF ok
         THEN /\ editingImages' =
                    SortByOrder([k \in 1..Len(editingImages) |->
                       IF editingImages[k].id = orderCall.imageId
                         THEN [editingImages[k] EXCEPT
                                 !.display_order = orderCall.newOrder]
                         ELSE editingImages[k]])
              /\ orderToast' = "Image order updated"
         ELSE /\ UNCHANGED editingImages
              /\ orderToast' = "Failed to update image order"
    /\ submitting' = FALSE
    /\ orderCall' = NoOrderCall
    /\ UNCHANGED <<sessionVars, createVars, apiVars, pwVars>>

OrderNext ==
    \/ \E images \in ProductImages : OpenEditDialog(images)
    \/ \E imageId \in ImageIds : MoveImageUp(imageId)
    \/ \E imageId \in ImageIds : MoveImageDown(imageId)
    \/ \E ok \in BOOLEAN : UpdateImageOrderDone(ok)

SideInit == ApiInit /\ PasswordInit /\ OrderInit

Init == SessionInit /\ CreateInit /\ SideInit

\* the auth context on its own
Next == SessionNext

Spec == Init /\ [][Next]_vars

\* the add-product form on its own
NextCreate == CreateNext

\* no request of the form reads the session: it starts from the signed-out
\* provider
InitCreate == Init /\ idpUser = NoPrincipal

SpecCreate == InitCreate /\ [][NextCreate]_vars

\* the application's requests to the backend on their own
NextApi == ApiNext

SpecApi == Init /\ [][NextApi]_vars

\* the two password forms
NextPassword == PasswordNext

SpecPassword == Init /\ [][NextPassword]_vars

\* the two password forms where every password typed has all four character
\* classes, so that a submission differs from another by its length, by the
\* confirmation field and by the presence of email and code only
FullPasswords ==
    {pw \in Passwords : pw.upper /\ pw.lower /\ pw.digit /\ pw.special}

FormsNext ==
    \/ CheckAuthState
    \/ LoginCall
    \/ LoginSignInDone
    \/ \E pw \in FullPasswords, matches \in BOOLEAN :
          NewPasswordFormSubmit(pw, matches)
    \/ CnpConfirmSignInDone
    \/ NewPasswordFormSettled
    \/ \E email \in BOOLEAN, code \in BOOLEAN, pw \in FullPasswords,
          matches \in BOOLEAN :
          ResetPasswordFormSubmit(email, code, pw, matches)
    \/ \E ok \in BOOLEAN, e \in Thrown : ResetPasswordConfirmDone(ok, e)

NextForms == FormsNext

SpecForms == Init /\ [][NextForms]_vars

\* the image picker of the add-product form on its own, with two images
\* that can be told apart
PhotoPicks == {<<f>> : f \in Photos} \cup {<<f, g>> : f \in Photos, g \in Photos}

ImagesNext ==
    \/ \E files \in PhotoPicks : HandleImageSelect(files)
    \/ \E f \in Photos : PreviewLoaded(f)
    \/ \E index \in 0..(MaxImages - 1) : RemoveImage(index)
    \/ \E index \in 0..(MaxImages - 1) : SetPrimaryImage(index)

NextImages == ImagesNext

SpecImages == InitCreate /\ [][NextImages]_vars

\* the product edit dialog's image list on its own
NextOrder == OrderNext

SpecOrder == Init /\ [][NextOrder]_vars

\* named states of the session manager
Anonymous ==
    user = NoUser /\ ~needsPasswordChange /\ challengeSession = NULL
Authenticated == user # NoUser
PasswordChangeRequired == needsPasswordChange
NoTimerArmed == timers = {}

TypeOK ==
    /\ timers \subseteq TimerIds
    /\ idpToken # NULL => idpUser # NoPrincipal

(***************************************************************************)
(* Steps of the operations, as the properties below name them              *)
(***************************************************************************)
\* signIn resolves for the running login
SignInResolves == pc["login"] = "signIn" /\ pc'["login"] # "signIn"
\* login hands control back to LoginForm.handleSubmit without throwing
LoginReturns == loginResult = Pending /\ loginResult' = Returned
\* login throws
LoginThrows == loginResult = Pending /\ loginResult'.status = "threw"
\* logout hands control back to its caller
LogoutReturns == pc["logout"] = "signOut" /\ pc'["logout"] = "idle"
\* the expiry timer's callback ends
ExpireCallbackEnds == pc["expire"] = "signOut" /\ pc'["expire"] = "idle"
\* getAuthToken returns
GetAuthTokenReturns == pc["token"] = "fetchAuthSession" /\ pc'["token"] = "idle"
\* completeNewPassword is called
CnpCalled == pc["cnp"] = "idle" /\ cnpResult' # cnpResult
\* the steps of login
LoginStep == pc["login"] # pc'["login"]

SessionState == <<user, needsPasswordChange, challengeSession, sessionTimer, timers>>

(***************************************************************************)
(* Properties of the create-product workflow (SpecCreate)                  *)
(***************************************************************************)
\* the transaction has ended and its toast is up
Ended(kind) == pcSubmit = "idle" /\ report.kind = kind

\* C1: all-or-nothing.  When onSubmit has ended with "All changes have been
\* rolled back", the backend holds neither the product this transaction
\* created, nor an image object it uploaded, nor an image record it wrote;
\* when it has ended with the success toast, the product and all N image
\* records exist.
AllOrNothing ==
    /\ Ended("rolledBack") =>
          /\ createdProductId \notin products
          /\ \A k \in 1..Len(uploadedImages) : uploadedImages[k] \notin objects
          /\ RecordsOf(createdProductId) = {}
    /\ Ended("success") =>
          /\ createdProductId \in products
          /\ Cardinality(RecordsOf(createdProductId)) = Len(txImages)

\* request k of the transaction is an upload or a record write that failed
FailedAt(k) ==
    /\ reqLog[k].op \in {"upload", "saveRecord"}
    /\ reqLog[k].status = "failed"

\* C2: once an upload or an image-record write of the transaction has
\* failed, the next request is the delete of the created product and no
\* upload or record write is issued after the failure.
AbortOnFailure ==
    \A k \in 1..Len(reqLog) :
       FailedAt(k) =>
          /\ k < Len(reqLog)
          /\ reqLog[k + 1].op = "deleteProduct"
          /\ \A m \in (k + 1)..Len(reqLog) :
                reqLog[m].op \notin {"upload", "saveRecord"}

\* C2's case: a transaction of two images whose first upload failed has run
\* to its end
AbortOnFailureWitness ==
    /\ pcSubmit = "idle"
    /\ Len(txImages) = 2
    /\ \E k \in 1..Len(reqLog) :
          /\ reqLog[k] = [op |-> "upload", index |-> 0, status |-> "failed"]
          /\ k < Len(reqLog)
    /\ \A k \in 1..Len(reqLog) : reqLog[k].status # "inflight"

(***************************************************************************)
(* Properties of the auth context (Spec)                                   *)
(***************************************************************************)
\* checkAuthState sets a user
EntersAuthenticated ==
    \E p \in Checkers :
       /\ pc[p] = "fetchAuthSession"
       /\ pc'[p] # "fetchAuthSession"
       /\ user' # NoUser

\* C3: a Session exists only while the provider reports a signed-in
\* principal with a token: whenever checkAuthState sets a user, the session
\* it fetched carries a token.
SessionOnlyWithToken ==
    [][EntersAuthenticated => (idpUser # NoPrincipal /\ idpToken # NULL)]_vars

\* C4: when the provider rejects the sign-in, login throws an Error with
\* the provider's message, and no step of login (the call, the rejection)
\* changes user, needsPasswordChange, the challenge or the timer: called in
\* Anonymous with no timer armed, it leaves Anonymous with no timer armed.
LoginRejectedStaysAnonymous ==
    [][/\ (SignInResolves /\ idpOutcome'.step = "REJECTED") =>
             /\ loginResult'.status = "threw"
             /\ idpOutcome'.error.isError =>
                   loginResult'.message = idpOutcome'.error.message
             /\ UNCHANGED SessionState
             /\ (Anonymous /\ NoTimerArmed) => (Anonymous' /\ NoTimerArmed')
       /\ (pc["login"] = "idle" /\ pc'["login"] = "signIn") =>
             UNCHANGED SessionState
      ]_vars

\* C4's case: a login called in Anonymous was rejected with the provider's
\* message and the state is Anonymous, no timer armed
LoginRejectedWitness ==
    /\ loginResult = Threw("NotAuthorized")
    /\ idpOutcome = Outcome("REJECTED", [isError |-> TRUE, message |-> "NotAuthorized"])
    /\ Anonymous
    /\ NoTimerArmed
    /\ ~isLoading
    /\ pc["login"] = "idle"

\* C5: when signIn reports the new-password-required step the state becomes
\* PasswordChangeRequired (needsPasswordChange true, user null, challenge
\* stored), and every getAuthToken call that returns while
\* needsPasswordChange is true returns null.
ParksWithoutToken ==
    [][/\ (SignInResolves
             /\ idpOutcome'.step = "CONFIRM_SIGN_IN_WITH_NEW_PASSWORD_REQUIRED") =>
             /\ needsPasswordChange'
             /\ challengeSession' # NULL
             /\ user' = NoUser
       /\ (GetAuthTokenReturns /\ needsPasswordChange) =>
             tokenResult'.message = NULL
      ]_vars

\* C6: whenever login returns without throwing, the state is Authenticated
\* or PasswordChangeRequired.
LoginReturnsSignedInOrParked ==
    [][LoginReturns => (user' # NoUser \/ needsPasswordChange')]_vars

\* C7: when logout returns, user is null, needsPasswordChange is false, no
\* challenge is stored, no timer is pending, and logout has not thrown.
LogoutClearsEverything ==
    [][LogoutReturns =>
          /\ Anonymous'
          /\ timers' = {}
          /\ sessionTimer' = NoTimer
          /\ logoutResult' = Returned]_vars

\* C8: after two logout calls in a row the state is Anonymous and neither
\* call has thrown.
LogoutTwiceAnonymous ==
    (logoutsInRow = 2 /\ pc["logout"] = "idle") =>
        (Anonymous /\ logoutResult = Returned)

\* C9: when the expiry timer's callback has run, the state is Anonymous and
\* the provider holds no token, so that getAuthToken returns null.
ExpiryReachesAnonymous ==
    [][ExpireCallbackEnds =>
          /\ Anonymous'
          /\ \A throws \in BOOLEAN : GetAuthTokenValue(throws)' = NULL]_vars

\* C10: completeNewPassword called with no challenge stored throws "No
\* active challenge session", calls the identity provider not once, and
\* leaves user, needsPasswordChange, the challenge, the timer and the
\* provider as they are.
NoChallengeNoEffect ==
    [][(CnpCalled /\ challengeSession = NULL) =>
          /\ cnpResult' = Threw("No active challenge session")
          /\ cnpIdpCalls' = 0
          /\ pc'["cnp"] = "idle"
          /\ UNCHANGED <<SessionState, isLoading, idpVars>>]_vars

\* C10's case: with nobody signed in and no login made, completeNewPassword
\* was called and failed
NoChallengeWitness ==
    /\ cnpResult = Threw("No active challenge session")
    /\ cnpIdpCalls = 0
    /\ loginResult = NoResult
    /\ challengeSession = NULL
    /\ pc["cnp"] = "idle"

(***************************************************************************)
(* Properties of completeNewPassword and of the startup check (Spec)       *)
(***************************************************************************)
\* confirmSignIn resolves for the running completeNewPassword
ConfirmSignInResolves == pc["cnp"] = "confirmSignIn" /\ pc'["cnp"] # "confirmSignIn"
\* completeNewPassword hands control back without throwing
CnpReturns == cnpResult = Pending /\ cnpResult' = Returned

\* C11: when the provider confirms the challenge response, the challenge is
\* discarded (challengeSession null, needsPasswordChange false) and
\* checkAuthState is started with user left as it is, so that
\* completeNewPassword returns only out of that check; when the provider
\* rejects it, completeNewPassword throws the provider's message and leaves
\* user, needsPasswordChange and the challenge as they are.
CnpConfirmedRechecks ==
    [][/\ (ConfirmSignInResolves /\ idpOutcome'.step = "DONE") =>
             /\ challengeSession' = NULL
             /\ ~needsPasswordChange'
             /\ pc'["cnp"] = "getCurrentUser"
             /\ cnpResult' = Pending
             /\ UNCHANGED user
       /\ CnpReturns => pc["cnp"] \in {"getCurrentUser", "fetchAuthSession"}
       /\ (ConfirmSignInResolves /\ idpOutcome'.step = "REJECTED") =>
             /\ cnpResult'.status = "threw"
             /\ idpOutcome'.error.isError =>
                   cnpResult'.message = idpOutcome'.error.message
             /\ UNCHANGED <<user, needsPasswordChange, challengeSession>>
      ]_vars

\* C11's case: called in PasswordChangeRequired, completeNewPassword has had
\* its challenge response confirmed and is waiting for its checkAuthState
CnpConfirmedWitness ==
    /\ pc["cnp"] = "getCurrentUser"
    /\ idpOutcome = Outcome("DONE", NonError)
    /\ challengeSession = NULL
    /\ ~needsPasswordChange
    /\ user = NoUser
    /\ cnpResult = Pending

\* the steps of the checkAuthState the mount effect started
CheckStartup ==
    \/ CheckGetCurrentUserDone("startup")
    \/ \E throws \in BOOLEAN : CheckFetchAuthSessionDone("startup", throws)

\* the auth context where each provider call of the startup check settles:
\* getCurrentUser and fetchAuthSession resolve or reject, and the event loop
\* then runs the continuation
SpecStartup == Spec /\ WF_vars(CheckStartup)

\* the startup check returns
StartupEnds == pc["startup"] # "done" /\ pc'["startup"] = "done"

\* C12: the startup check terminates, and when it returns isLoading is
\* false; it returns with a user set and the timer armed when getCurrentUser
\* and fetchAuthSession resolved, and in Anonymous with no timer pending when
\* getCurrentUser or fetchAuthSession threw.
StartupCheckEnds ==
    /\ [][/\ StartupEnds => ~isLoading'
          /\ CheckFetchAuthSessionDone("startup", FALSE) =>
                /\ StartupEnds
                /\ user' # NoUser
                /\ sessionTimer' \in timers'
          /\ (StartupEnds /\ pc["startup"] = "getCurrentUser") =>
                /\ idpUser = NoPrincipal
                /\ Anonymous' /\ NoTimerArmed' /\ sessionTimer' = NoTimer
          /\ CheckFetchAuthSessionDone("startup", TRUE) =>
                /\ StartupEnds
                /\ Anonymous' /\ NoTimerArmed' /\ sessionTimer' = NoTimer
         ]_vars
    /\ <>(pc["startup"] = "done" /\ ~isLoading)

\* C12's case: the startup check found a principal, then fetchAuthSession
\* threw, and the check has returned
StartupFailedWitness ==
    /\ pc["startup"] = "done"
    /\ idpUser # NoPrincipal
    /\ currentUser["startup"] # NoPrincipal
    /\ user = NoUser
    /\ ~isLoading

(***************************************************************************)
(* Properties of the session timer (Spec)                                  *)
(***************************************************************************)
\* C13: at most one session-expiry timer is pending, and a pending timer is
\* the one sessionTimer holds, which the next startSessionTimer or
\* clearSessionTimer cancels.
SingleSessionTimer ==
    /\ Cardinality(timers) <= 1
    /\ timers \subseteq {sessionTimer}

\* C13's case: a session timer was armed while sessionTimer held an earlier
\* timer's id, and it is the only one pending
RearmedWitness ==
    /\ sessionTimer = 2
    /\ timers = {2}
    /\ user # NoUser
    /\ logoutResult = Returned
    /\ loginResult = Returned
    /\ cnpResult = Returned

(***************************************************************************)
(* Properties of the backend requests (SpecApi)                            *)
(***************************************************************************)
\* C14: every request on the wire carries `Authorization: Bearer <token>`
\* when the provider had a token for it and no Authorization header when it
\* had none (or fetching the session threw), and a request that is past its
\* session fetch is on the wire.
EveryRequestCarriesBearer ==
    /\ \A k \in 1..Len(wire) :
          wire[k].authorization = AuthorizationFor(wire[k].token)
    /\ apiPc = "fetch" =>
          /\ Len(wire) > 0
          /\ wire[Len(wire)].via = apiCall.via
          /\ wire[Len(wire)].method = apiCall.method

(***************************************************************************)
(* More properties of the create-product workflow (SpecCreate)             *)
(***************************************************************************)
\* C15: when onSubmit has ended with the success toast for N images, the
\* requests it issued are the product creation, the N uploads in order and
\* the N record writes in order, every one of them answered ok, and no
\* delete.
SuccessOnlyAfterAll ==
    Ended("success") =>
        LET N == Len(txImages) IN
        /\ N >= 1
        /\ Len(reqLog) = 1 + 2 * N
        /\ reqLog[1] = [op |-> "createProduct", index |-> 0, status |-> "ok"]
        /\ \A k \in 1..N :
              /\ reqLog[1 + k] =
                    [op |-> "upload", index |-> k - 1, status |-> "ok"]
              /\ reqLog[1 + N + k] =
                    [op |-> "saveRecord", index |-> k - 1, status |-> "ok"]
        /\ \A k \in 1..Len(reqLog) :
              reqLog[k].op \notin {"deleteProduct", "deleteImages"}

\* C15's case: a transaction of two images has ended with the success toast
SuccessWitness ==
    /\ Ended("success")
    /\ Len(txImages) = 2
    /\ Len(reqLog) = 5

\* C16: when the product creation (step 1) has failed, the workflow has
\* ended, it created no product, and the creation is the only request it
\* issued: no upload, no record write, no delete.
CreateFailedNoCleanup ==
    (Len(reqLog) >= 1 /\ reqLog[1].status = "failed") =>
        /\ reqLog = <<[op |-> "createProduct", index |-> 0, status |-> "failed"]>>
        /\ pcSubmit = "idle"
        /\ ~formIsLoading
        /\ createdProductId = NoProduct
        /\ uploadedImages = <<>>

\* C16's case: a submit whose product creation failed has ended with its
\* error toast
CreateFailedWitness ==
    /\ reqLog = <<[op |-> "createProduct", index |-> 0, status |-> "failed"]>>
    /\ Len(txImages) = 2
    /\ report.kind \in {"rolledBack", "manualCleanup"}
    /\ products = {}

\* onSubmit has ended with an error toast
EndedFailed ==
    pcSubmit = "idle" /\ report.kind \in {"rolledBack", "manualCleanup"}

\* C17: the error toast is the one that warns that a product may still exist
\* and names its id exactly when the product was created and the request
\* that deletes it failed; after any other failure, that of step 1 included,
\* the toast does not say that a product may still exist.
ManualCleanupIffDeleteFailed ==
    EndedFailed =>
        /\ report.kind = "manualCleanup" <=>
              /\ createdProductId # NoProduct
              /\ \E k \in 1..Len(reqLog) :
                    /\ reqLog[k].op = "deleteProduct"
                    /\ reqLog[k].status = "failed"
        /\ report.kind = "manualCleanup" => report.productId = createdProductId

\* the request whose failure threw out of the try block
FailedRequest(log) ==
    log[CHOOSE k \in 1..Len(log) :
           /\ log[k].status = "failed"
           /\ log[k].op \in {"createProduct", "upload", "saveRecord"}]

\* C18: when onSubmit has ended with an error toast, the toast names the
\* step that failed (product creation, upload, record write) and, for an
\* upload or a record write, the index of the image.
ToastNamesFailedStep ==
    EndedFailed =>
        LET failed == FailedRequest(reqLog) IN
        /\ failed.op \in ToastNames(report).steps
        /\ failed.op \in {"upload", "saveRecord"} =>
              failed.index \in ToastNames(report).images

\* the image records of the running transaction's product marked primary
PrimaryRecords == {r \in RecordsOf(createdProductId) : r.is_primary}

SatisfiesPolicy(pw) ==
    /\ pw.length >= 8
    /\ pw.upper /\ pw.lower /\ pw.digit /\ pw.special

\* C20: no provider call, from NewPasswordForm (confirmSignIn) or from
\* ResetPasswordForm (confirmResetPassword), carries a password that
\* violates the policy.
PolicyCheckedLocally ==
    passwordCall.api # "none" => SatisfiesPolicy(passwordCall.password)

\* C21: a submission of NewPasswordForm whose confirmation differs from the
\* new password, and a submission of ResetPasswordForm whose email or code
\* is missing or whose confirmation differs, only sets the form's error
\* message: completeNewPassword or resetPasswordConfirm is not called, so
\* the form does not go to loading, no provider call is recorded and the
\* auth context is left as it is.
InvalidSubmitStaysLocal ==
    [][/\ (\E pw \in FullPasswords : NewPasswordFormSubmit(pw, FALSE)) =>
             /\ npfError' = "Passwords do not match"
             /\ UNCHANGED <<npfLoading, passwordCall, sessionVars>>
       /\ (\E email \in BOOLEAN, code \in BOOLEAN, matches \in BOOLEAN :
              /\ ~email \/ ~code \/ ~matches
              /\ \E pw \in FullPasswords :
                    ResetPasswordFormSubmit(email, code, pw, matches)) =>
             /\ rpfError' \in {"Email address is required",
                               "Verification code is required",
                               "Passwords do not match"}
             /\ UNCHANGED <<rpfLoading, passwordCall, sessionVars>>
      ]_vars

\* C21's case: with a challenge stored, NewPasswordForm has refused a
\* submission whose fields differ, and ResetPasswordForm one whose fields
\* differ with email and code present; no provider call was made
InvalidSubmitWitness ==
    /\ needsPasswordChange
    /\ challengeSession # NULL
    /\ npfError = "Passwords do not match"
    /\ rpfError = "Passwords do not match"
    /\ ~npfLoading
    /\ ~rpfLoading
    /\ passwordCall = NoPasswordCall
    /\ pc["cnp"] = "idle"

(***************************************************************************)
(* Order of the requests of one transaction (SpecCreate)                   *)
(***************************************************************************)
\* C22: the requests of a transaction are issued one after the other: only
\* the last request issued can be in flight, and it is while onSubmit runs;
\* the product creation comes first, upload 0 follows the creation's
\* success, upload i+1 the success of upload i, record write 0 the success
\* of the last of the N uploads, and record write i+1 the success of record
\* write i.
StrictlySequential ==
    /\ \A k \in 1..Len(reqLog) :
          reqLog[k].status = "inflight" <=> (k = Len(reqLog) /\ pcSubmit # "idle")
    /\ pcSubmit # "idle" => (Len(reqLog) >= 1 /\ reqLog[Len(reqLog)].op = pcSubmit)
    /\ Len(reqLog) >= 1 => reqLog[1].op = "createProduct"
    /\ \A k \in 2..Len(reqLog) :
          LET r == reqLog[k]
              prev == reqLog[k - 1]
          IN  /\ r.op # "createProduct"
              /\ r.op = "upload" =>
                    prev = [op |-> IF r.index = 0 THEN "createProduct" ELSE "upload",
                            index |-> IF r.index = 0 THEN 0 ELSE r.index - 1,
                            status |-> "ok"]
              /\ r.op = "saveRecord" =>
                    prev = [op |-> IF r.index = 0 THEN "upload" ELSE "saveRecord",
                            index |-> IF r.index = 0 THEN Len(txImages) - 1
                                      ELSE r.index - 1,
                            status |-> "ok"]

\* C22's case: in a transaction of two images the creation, both uploads and
\* the first record write are answered and the second record write is in
\* flight
SequentialWitness ==
    /\ Len(txImages) = 2
    /\ Len(reqLog) = 5
    /\ pcSubmit = "saveRecord"
    /\ reqLog[5] = [op |-> "saveRecord", index |-> 1, status |-> "inflight"]

ChallengeOnlyWhileParked ==
    /\ challengeSession # NULL <=> needsPasswordChange
    /\ challengeSession # NULL => user = NoUser
    /\ ~(Authenticated /\ PasswordChangeRequired)

\* a step of a running checkAuthState
CheckStep == \E p \in Checkers : pc[p] # pc'[p] /\ pc[p] \in {"getCurrentUser", "fetchAuthSession"}

\* C25: a checkAuthState that completes after a logout or the expiry
\* callback has signed the provider out sets no user and arms no timer, and
\* no timer is pending while the state is Anonymous.
SignOutWinsOverCheck ==
    /\ [](Anonymous => NoTimerArmed)
    /\ [][(CheckStep /\ idpUser = NoPrincipal) =>
             /\ user' = NoUser
             /\ timers' = {}
             /\ sessionTimer' = NoTimer]_vars

\* login hands control back to LoginForm.handleSubmit, by return or throw
LoginEnds == loginResult = Pending /\ loginResult' # Pending

\* C26: when a call of login ends, on any outcome of signIn (rejection, the
\* new-password-required step, a completed sign-in, any other step),
\* isLoading is false.
LoginResetsIsLoading ==
    [][LoginEnds => ~isLoading']_vars

(***************************************************************************)
(* One transaction at a time (SpecCreate)                                  *)
(***************************************************************************)
\* onSubmit is called while a transaction is running
SubmitWhileRunning == pcSubmit # "idle" /\ SubmitCall

\* the running transaction ends
TransactionEnds == pcSubmit # "idle" /\ pcSubmit' = "idle"

\* C27: isLoading is true exactly while a transaction runs; an onSubmit
\* called meanwhile issues no request and leaves the transaction, the
\* backend and the flag as they are; and when the transaction ends, with
\* the success toast or an error toast, isLoading is false.
OneTransactionInFlight ==
    /\ [](formIsLoading <=> pcSubmit # "idle")
    /\ [][/\ SubmitWhileRunning =>
                UNCHANGED <<reqLog, txVars, backendVars, formVars>>
          /\ TransactionEnds =>
                /\ ~formIsLoading'
                /\ report'.kind \in {"success", "rolledBack", "manualCleanup"}
         ]_vars

\* C27's case: while the first upload of a transaction is in flight, an
\* onSubmit was called (with the selection emptied meanwhile it put up its
\* toast) and the transaction goes on with that one request
SubmitWhileRunningWitness ==
    /\ pcSubmit = "upload"
    /\ formIsLoading
    /\ report.kind = "selectImage"
    /\ Len(reqLog) = 2
    /\ reqLog[2].status = "inflight"

(***************************************************************************)
(* Properties of the image picker (SpecImages)                             *)
(***************************************************************************)
\* C28: once every FileReader has fired, the previews are as many as the
\* selected files and the preview at each index is the preview of the file
\* at that index.
PreviewsAligned ==
    Reading = 0 =>
        /\ Len(imagePreviews) = Len(selectedImages)
        /\ \A k \in 1..Len(selectedImages) :
              imagePreviews[k] = PreviewOf(selectedImages[k])

DistinctOrders(images) ==
    \A a, b \in 1..Len(images) :
       a # b => images[a].display_order # images[b].display_order

\* a handleUpdateImageOrder that moveImageUp or moveImageDown started ends
\* with its success toast
MoveSucceeds ==
    /\ orderCall # NoOrderCall
    /\ orderCall' = NoOrderCall
    /\ orderToast' = "Image order updated"

\* C30: when a move of the image at position k of a list with pairwise
\* different display_order values succeeds, the image is at position k-1
\* after moveImageUp and at k+1 after moveImageDown, and the display_order
\* values still differ pairwise.
MoveChangesPosition ==
    [][(MoveSucceeds /\ DistinctOrders(editingImages)) =>
          /\ FindIndex(editingImages', orderCall.imageId) =
                IF orderCall.dir = "up"
                  THEN orderCall.from - 1 ELSE orderCall.from + 1
          /\ DistinctOrders(editingImages')]_vars

====
